---- MODULE Spec2Model ----
(***************************************************************************)
(* cloudigest: the retrieval-augmented answering engine (type RAG) of      *)
(* src/cmd/scan.go, which src/prod/pkg/rag/rag.go repeats without the      *)
(* Claude backend.                                                         *)
(*                                                                         *)
(* A text is a sequence of one-character strings.  A float32 score is the  *)
(* exact quotient of two integers, or NaN, or a run-time panic; the        *)
(* vectors of the model have small integer components, for which float32   *)
(* arithmetic is exact up to the final division, and that division is      *)
(* monotonic, so that order and equality of the quotients are those of     *)
(* the float32 results.                                                    *)
(***************************************************************************)
EXTENDS Integers, Sequences, FiniteSets, TLC

VARIABLES
    openaiClient,   \* RAG.openaiClient: "openai" or "nil"
    claudeClient,   \* RAG.claudeClient: "claude" or "nil"
    documents,      \* RAG.documents: the chunk list
    embeddings,     \* RAG.embeddings: chunk content -> vector
    chunkSize,      \* RAG.chunkSize
    maxTokens,      \* RAG.maxTokens
    useOpenAI,      \* RAG.useOpenAI
    call,           \* the operation invoked last, with its arguments
    ret,            \* what that operation returned and did
    cmd             \* the activation record of the program that owns the
                    \* instance: the run of a command, or the goroutines
                    \* that call it

vars == <<openaiClient, claudeClient, documents, embeddings, chunkSize,
          maxTokens, useOpenAI, call, ret, cmd>>

rag == <<openaiClient, claudeClient, documents, embeddings, chunkSize,
         maxTokens, useOpenAI>>

(***************************************************************************)
(* Bounds                                                                  *)
(***************************************************************************)
MaxTextLen == 5
MaxChunkSize == 3
MaxComponent == 2
MaxDim == 2
MaxIndex == 3
MaxRank == 4
MaxSources == 2
MaxContext == 2

(***************************************************************************)
(* Program constants                                                       *)
(***************************************************************************)
DefaultChunkSize == 1000
DefaultMaxTokens == 4000
TopK == 3

(***************************************************************************)
(* Texts                                                                   *)
(***************************************************************************)
Letters == {"a", "b"}
Spaces == {" ", "\n"}
Chars == Letters \cup Spaces

RECURSIVE SeqsUpTo(_, _)
SeqsUpTo(S, n) ==
    IF n = 0 THEN {<<>>}
    ELSE LET shorter == SeqsUpTo(S, n - 1)
         IN  shorter \cup {Append(s, x) : s \in {t \in shorter : Len(t) = n - 1}, x \in S}

RECURSIVE FieldsFrom(_, _, _, _)
FieldsFrom(text, i, word, words) ==
    IF i > Len(text)
    THEN IF word = <<>> THEN words ELSE Append(words, word)
    ELSE IF text[i] \in Spaces
         THEN FieldsFrom(text, i + 1, <<>>,
                         IF word = <<>> THEN words ELSE Append(words, word))
         ELSE FieldsFrom(text, i + 1, Append(word, text[i]), words)

\* strings.Fields: the maximal runs of non-space characters, in order
Fields(text) == FieldsFrom(text, 1, <<>>, <<>>)

RECURSIVE Join(_, _)
\* strings.Join(words, sep)
Join(words, sep) ==
    IF words = <<>> THEN <<>>
    ELSE IF Len(words) = 1 THEN words[1]
    ELSE words[1] \o sep \o Join(Tail(words), sep)

RECURSIVE splitLoop(_, _, _, _, _)
splitLoop(words, i, size, chunks, currentChunk) ==
    IF i > Len(words)
    THEN IF Len(currentChunk) > 0
         THEN Append(chunks, Join(currentChunk, <<" ">>))
         ELSE chunks
    ELSE LET grown == Append(currentChunk, words[i])
         IN  IF Len(grown) >= size
             THEN splitLoop(words, i + 1, size,
                            Append(chunks, Join(grown, <<" ">>)), <<>>)
             ELSE splitLoop(words, i + 1, size, chunks, grown)

\* a splitter that flushes on len(currentChunk) > chunkSize
splitIntoChunksGreater(text, size) ==
    splitLoop(Fields(text), 1, size + 1, <<>>, <<>>)

\* a splitter that forgets the words left over after the loop
splitIntoChunksNoFlush(text, size) ==
    LET words == Fields(text)
        chunks == splitLoop(words, 1, size, <<>>, <<>>)
    IN  IF size > 0 /\ Len(words) % size # 0
        THEN SubSeq(chunks, 1, Len(chunks) - 1)
        ELSE chunks

\* RAG.splitIntoChunks with r.chunkSize = size
splitIntoChunks(text, size) ==
    splitLoop(Fields(text), 1, size, <<>>, <<>>)

(***************************************************************************)
(* Vectors and scores                                                      *)
(***************************************************************************)
Components == (0 - MaxComponent)..MaxComponent
Vectors == SeqsUpTo(Components, MaxDim)

Abs(x) == IF x < 0 THEN 0 - x ELSE x

RECURSIVE GCD(_, _)
GCD(x, y) == IF y = 0 THEN x ELSE GCD(y, x % y)

NaN == [kind |-> "NaN", n |-> 0, d |-> 0]
Panic == [kind |-> "panic", n |-> 0, d |-> 0]
Num(x, y) == [kind |-> "num", n |-> x, d |-> y]

\* float32 division x / y of the IEEE arithmetic Go uses
Quotient(x, y) ==
    IF y = 0
    THEN IF x = 0 THEN NaN
         ELSE [kind |-> "inf", n |-> IF x > 0 THEN 1 ELSE 0 - 1, d |-> 0]
    ELSE LET g == GCD(Abs(x), Abs(y))
             sign == IF y < 0 THEN 0 - 1 ELSE 1
         IN  Num(sign * (x \div g), sign * (y \div g))

RECURSIVE SumTo(_, _, _)
\* the value a loop "for i := range a { acc += x[i] * y[i] }" leaves in acc
SumTo(x, y, n) == IF n = 0 THEN 0 ELSE SumTo(x, y, n - 1) + x[n] * y[n]

\* the helper sqrt: float32(float64(x))
sqrt(x) == x

\* cosineSimilarity: b[i] with i past the end of b panics (index out of range)
cosineSimilarity(a, b) ==
    IF Len(b) < Len(a) THEN Panic
    ELSE LET n == Len(a)
             dotProduct == SumTo(a, b, n)
             normA == SumTo(a, a, n)
             normB == SumTo(b, b, n)
         IN  Quotient(dotProduct, sqrt(normA) * sqrt(normB))

(***************************************************************************)
(* The backends: what an embedding or a completion request may answer      *)
(***************************************************************************)
Nil == <<>>

EmbedVecs == {<<1, 0>>, <<0, 1>>}
EmbedResponses == [err : {TRUE}, vec : {Nil}] \cup [err : {FALSE}, vec : EmbedVecs]

Answers == {"answer"}
GenResponses == [err : {TRUE}, text : {""}] \cup [err : {FALSE}, text : Answers]

\* a getEmbedding that answers a zero vector when there is no OpenAI client
getEmbeddingZero(flag, text, resp) ==
    IF flag
    THEN [text |-> text, vec |-> resp.vec, err |-> resp.err, requests |-> 1]
    ELSE [text |-> text, vec |-> <<0, 0>>, err |-> FALSE, requests |-> 0]

\* RAG.getEmbedding with r.useOpenAI = flag; resp is what CreateEmbeddings
\* answers when it is asked
getEmbedding(flag, text, resp) ==
    IF flag
    THEN [text |-> text, vec |-> resp.vec, err |-> resp.err, requests |-> 1]
    ELSE [text |-> text, vec |-> Nil, err |-> TRUE, requests |-> 0]

(***************************************************************************)
(* Ingestion                                                               *)
(***************************************************************************)
\* an assignment r.embeddings[chunk] = embedding that is left out
StoreNothing(embs, key, vec) == embs

Store(embs, key, vec) ==
    [k \in DOMAIN embs \cup {key} |-> IF k = key THEN vec ELSE embs[k]]

RECURSIVE addLoopDedup(_, _, _, _, _, _)
\* a loop that appends a chunk only when its content is not yet embedded
addLoopDedup(st, flag, doc, chunks, resps, i) ==
    IF i > Len(chunks)
    THEN [documents |-> st.documents, embeddings |-> st.embeddings,
          embeds |-> st.embeds, err |-> FALSE]
    ELSE LET e == getEmbedding(flag, chunks[i], resps[i])
         IN  IF e.err
             THEN [documents |-> st.documents, embeddings |-> st.embeddings,
                   embeds |-> Append(st.embeds, e), err |-> TRUE]
             ELSE addLoopDedup(
                      [documents |-> IF chunks[i] \in DOMAIN st.embeddings
                                     THEN st.documents
                                     ELSE Append(st.documents,
                                                 [Content |-> chunks[i],
                                                  Source |-> doc.Source,
                                                  Type |-> doc.Type]),
                       embeddings |-> Store(st.embeddings, chunks[i], e.vec),
                       embeds |-> Append(st.embeds, e)],
                      flag, doc, chunks, resps, i + 1)

RECURSIVE addLoopPrepend(_, _, _, _, _, _)
\* a loop that puts each new chunk at the head of the chunk list
addLoopPrepend(st, flag, doc, chunks, resps, i) ==
    IF i > Len(chunks)
    THEN [documents |-> st.documents, embeddings |-> st.embeddings,
          embeds |-> st.embeds, err |-> FALSE]
    ELSE LET e == getEmbedding(flag, chunks[i], resps[i])
         IN  IF e.err
             THEN [documents |-> st.documents, embeddings |-> st.embeddings,
                   embeds |-> Append(st.embeds, e), err |-> TRUE]
             ELSE addLoopPrepend(
                      [documents |-> <<[Content |-> chunks[i],
                                        Source |-> doc.Source,
                                        Type |-> doc.Type]>> \o st.documents,
                       embeddings |-> Store(st.embeddings, chunks[i], e.vec),
                       embeds |-> Append(st.embeds, e)],
                      flag, doc, chunks, resps, i + 1)

RECURSIVE addLoopUntyped(_, _, _, _, _, _)
\* a loop that files every chunk under the type "article"
addLoopUntyped(st, flag, doc, chunks, resps, i) ==
    IF i > Len(chunks)
    THEN [documents |-> st.documents, embeddings |-> st.embeddings,
          embeds |-> st.embeds, err |-> FALSE]
    ELSE LET e == getEmbedding(flag, chunks[i], resps[i])
         IN  IF e.err
             THEN [documents |-> st.documents, embeddings |-> st.embeddings,
                   embeds |-> Append(st.embeds, e), err |-> TRUE]
             ELSE addLoopUntyped(
                      [documents |-> Append(st.documents,
                                            [Content |-> chunks[i],
                                             Source |-> doc.Source,
                                             Type |-> "article"]),
                       embeddings |-> Store(st.embeddings, chunks[i], e.vec),
                       embeds |-> Append(st.embeds, e)],
                      flag, doc, chunks, resps, i + 1)

RECURSIVE addLoopContinue(_, _, _, _, _, _)
\* a loop that goes on to the next chunk when an embedding fails and reports
\* the failure at the end
addLoopContinue(st, flag, doc, chunks, resps, i) ==
    IF i > Len(chunks)
    THEN [documents |-> st.documents, embeddings |-> st.embeddings,
          embeds |-> st.embeds,
          err |-> \E k \in 1..Len(st.embeds) : st.embeds[k].err]
    ELSE LET e == getEmbedding(flag, chunks[i], resps[i])
         IN  IF e.err
             THEN addLoopContinue(
                      [documents |-> st.documents,
                       embeddings |-> st.embeddings,
                       embeds |-> Append(st.embeds, e)],
                      flag, doc, chunks, resps, i + 1)
             ELSE addLoopContinue(
                      [documents |-> Append(st.documents,
                                            [Content |-> chunks[i],
                                             Source |-> doc.Source,
                                             Type |-> doc.Type]),
                       embeddings |-> Store(st.embeddings, chunks[i], e.vec),
                       embeds |-> Append(st.embeds, e)],
                      flag, doc, chunks, resps, i + 1)

RECURSIVE addLoop(_, _, _, _, _, _)
\* the loop of AddDocument from chunk i on; st holds r.documents,
\* r.embeddings and the getEmbedding calls made so far
addLoop(st, flag, doc, chunks, resps, i) ==
    IF i > Len(chunks)
    THEN [documents |-> st.documents, embeddings |-> st.embeddings,
          embeds |-> st.embeds, err |-> FALSE]
    ELSE LET e == getEmbedding(flag, chunks[i], resps[i])
         IN  IF e.err
             THEN [documents |-> st.documents, embeddings |-> st.embeddings,
                   embeds |-> Append(st.embeds, e), err |-> TRUE]
             ELSE addLoop([documents |-> Append(st.documents,
                                                [Content |-> chunks[i],
                                                 Source |-> doc.Source,
                                                 Type |-> doc.Type]),
                           embeddings |-> Store(st.embeddings, chunks[i], e.vec),
                           embeds |-> Append(st.embeds, e)],
                          flag, doc, chunks, resps, i + 1)

(***************************************************************************)
(* Ranking, context and generation                                         *)
(***************************************************************************)
Min(x, y) == IF x < y THEN x ELSE y

\* r.embeddings[content]: the nil slice when the key is missing
Lookup(embs, content) ==
    IF content \in DOMAIN embs THEN embs[content] ELSE Nil

\* the scores list findRelevantDocuments builds, in chunk-list order
Scores(docs, embs, queryEmbedding) ==
    [i \in 1..Len(docs) |->
        [doc |-> docs[i],
         score |-> cosineSimilarity(queryEmbedding, Lookup(embs, docs[i].Content))]]

\* a ranking whose loop runs while i <= 3
findRelevantDocumentsOffByOne(docs, embs, queryEmbedding) ==
    LET scores == Scores(docs, embs, queryEmbedding)
    IN  [panic |-> \E i \in 1..Len(scores) : scores[i].score = Panic,
         scores |-> scores,
         result |-> [i \in 1..Min(Len(scores), TopK + 1) |-> scores[i].doc]]

RECURSIVE InsertByScore(_, _)
\* x put into a list in descending order of score, after the entries that
\* score as high
InsertByScore(sorted, x) ==
    IF sorted = <<>> THEN <<x>>
    ELSE IF x.score.n * sorted[1].score.d > sorted[1].score.n * x.score.d
         THEN <<x>> \o sorted
         ELSE <<sorted[1]>> \o InsertByScore(Tail(sorted), x)

RECURSIVE SortByScore(_)
SortByScore(scores) ==
    IF scores = <<>> THEN <<>>
    ELSE InsertByScore(SortByScore(SubSeq(scores, 1, Len(scores) - 1)),
                       scores[Len(scores)])

\* a ranking that sorts the scores list before it takes the first 3
findRelevantDocumentsSorted(docs, embs, queryEmbedding) ==
    LET scores == Scores(docs, embs, queryEmbedding)
        sorted == SortByScore(scores)
    IN  [panic |-> \E i \in 1..Len(scores) : scores[i].score = Panic,
         scores |-> scores,
         result |-> [i \in 1..Min(Len(sorted), TopK) |-> sorted[i].doc]]

\* RAG.findRelevantDocuments: the docs of scores[0..min(len, 3)-1]; a panic
\* of cosineSimilarity ends the call
findRelevantDocuments(docs, embs, queryEmbedding) ==
    LET scores == Scores(docs, embs, queryEmbedding)
    IN  [panic |-> \E i \in 1..Len(scores) : scores[i].score = Panic,
         scores |-> scores,
         result |-> [i \in 1..Min(Len(scores), TopK) |-> scores[i].doc]]

Preamble == "Based on the following information:\n\n"

RECURSIVE buildContextFirstSource(_)
\* a context that attributes every chunk to the source of the first one
buildContextFirstSource(docs) ==
    IF docs = <<>> THEN <<Preamble>>
    ELSE buildContextFirstSource(SubSeq(docs, 1, Len(docs) - 1))
         \o <<"Source: ", docs[1].Source, "\n">>
         \o docs[Len(docs)].Content \o <<"\n\n">>

RECURSIVE buildContext(_)
\* RAG.buildContext: the pieces written to the builder, in order
buildContext(docs) ==
    IF docs = <<>> THEN <<Preamble>>
    ELSE buildContext(SubSeq(docs, 1, Len(docs) - 1))
         \o <<"Source: ", docs[Len(docs)].Source, "\n">>
         \o docs[Len(docs)].Content \o <<"\n\n">>

SystemInstruction ==
    "You are an infrastructure optimization expert. Use the provided context to answer questions about infrastructure, services, and container deployments. Provide clear, actionable recommendations without implementing them directly."

\* a generateAnswer that drops the error of the backend
generateAnswerSwallow(flag, tokens, ctx, question, resp) ==
    [request |-> [backend |-> IF flag THEN "openai" ELSE "claude",
                  system |-> <<SystemInstruction>>,
                  user |-> ctx \o <<"\n\nQuestion: ">> \o question,
                  MaxTokens |-> tokens],
     answer |-> resp.text,
     err |-> FALSE]

\* a generateAnswer whose Claude request leaves the instruction out
generateAnswerBare(flag, tokens, ctx, question, resp) ==
    [request |-> [backend |-> IF flag THEN "openai" ELSE "claude",
                  system |-> IF flag THEN <<SystemInstruction>> ELSE <<>>,
                  user |-> ctx \o <<"\n\nQuestion: ">> \o question,
                  MaxTokens |-> tokens],
     answer |-> IF resp.err THEN "" ELSE resp.text,
     err |-> resp.err]

\* RAG.generateAnswer: the request it sends and what it returns for the
\* backend's answer resp
generateAnswer(flag, tokens, ctx, question, resp) ==
    LET request ==
            IF flag
            THEN [backend |-> "openai",
                  system |-> <<SystemInstruction>>,
                  user |-> ctx \o <<"\n\nQuestion: ">> \o question,
                  MaxTokens |-> tokens]
            ELSE [backend |-> "claude",
                  system |-> <<>>,
                  user |-> <<SystemInstruction, "\n\n">> \o ctx
                           \o <<"\n\nQuestion: ">> \o question,
                  MaxTokens |-> tokens]
    IN  [request |-> request,
         answer |-> IF resp.err THEN "" ELSE resp.text,
         err |-> resp.err]

(***************************************************************************)
(* The RAG instance after construction                                     *)
(***************************************************************************)
NoCall == [op |-> "none"]

\* no command is running: the instance is driven through its methods
NoCmd == [pc |-> "none"]

NewRAG ==
    /\ openaiClient = "openai"
    /\ claudeClient = "nil"
    /\ documents = <<>>
    /\ embeddings = <<>>
    /\ chunkSize = DefaultChunkSize
    /\ maxTokens = DefaultMaxTokens
    /\ useOpenAI = TRUE

NewRAGWithClaude ==
    /\ openaiClient = "nil"
    /\ claudeClient = "claude"
    /\ documents = <<>>
    /\ embeddings = <<>>
    /\ chunkSize = DefaultChunkSize
    /\ maxTokens = DefaultMaxTokens
    /\ useOpenAI = FALSE

(***************************************************************************)
(* The operations of a RAG instance                                        *)
(***************************************************************************)
InputDocs ==
    {[Content |-> <<"a", " ", "b">>, Source |-> "s1", Type |-> "article"],
     [Content |-> <<"b", "\n", "a", " ", "b">>, Source |-> "s2", Type |-> "documentation"],
     [Content |-> <<" ">>, Source |-> "s3", Type |-> "article"]}

Questions == {<<"q">>}
SetSizes == {0, 2}
SetTokens == {0, 4000}

Init ==
    /\ NewRAG \/ NewRAGWithClaude
    /\ call = NoCall
    /\ ret = NoCall
    /\ cmd = NoCmd

AddDocument(doc, resps) ==
    LET chunks == splitIntoChunks(doc.Content, chunkSize)
        out == addLoop([documents |-> documents, embeddings |-> embeddings,
                        embeds |-> <<>>],
                       useOpenAI, doc, chunks, resps, 1)
    IN  /\ documents' = out.documents
        /\ embeddings' = out.embeddings
        /\ call' = [op |-> "AddDocument", doc |-> doc]
        /\ ret' = [op |-> "AddDocument", err |-> out.err, embeds |-> out.embeds]
        /\ UNCHANGED <<openaiClient, claudeClient, chunkSize, maxTokens, useOpenAI>>

\* a Query that refuses to answer from an empty index
QueryResultEmptyFatal(question, embResp, genResp) ==
    LET e == getEmbedding(useOpenAI, question, embResp)
        ranked == findRelevantDocuments(documents, embeddings, e.vec)
        context == buildContext(ranked.result)
        g == generateAnswer(useOpenAI, maxTokens, context, question, genResp)
    IN  IF e.err \/ ranked.result = <<>>
        THEN [op |-> "Query", err |-> TRUE, panic |-> FALSE,
              answer |-> "", embeds |-> <<e>>, relevant |-> <<>>,
              context |-> <<>>, requests |-> <<>>, responses |-> <<>>]
        ELSE [op |-> "Query", err |-> g.err, panic |-> FALSE,
              answer |-> g.answer, embeds |-> <<e>>,
              relevant |-> ranked.result, context |-> context,
              requests |-> <<g.request>>, responses |-> <<genResp>>]

\* what Query returns, with the calls it made on the way
QueryResult(question, embResp, genResp) ==
    LET e == getEmbedding(useOpenAI, question, embResp)
        ranked == findRelevantDocuments(documents, embeddings, e.vec)
        context == buildContext(ranked.result)
        g == generateAnswer(useOpenAI, maxTokens, context, question, genResp)
    IN  IF e.err
        THEN [op |-> "Query", err |-> TRUE, panic |-> FALSE,
              answer |-> "", embeds |-> <<e>>, relevant |-> <<>>,
              context |-> <<>>, requests |-> <<>>, responses |-> <<>>]
        ELSE IF ranked.panic
        THEN [op |-> "Query", err |-> FALSE, panic |-> TRUE,
              answer |-> "", embeds |-> <<e>>, relevant |-> <<>>,
              context |-> <<>>, requests |-> <<>>, responses |-> <<>>]
        ELSE [op |-> "Query", err |-> g.err, panic |-> FALSE,
              answer |-> g.answer, embeds |-> <<e>>,
              relevant |-> ranked.result, context |-> context,
              requests |-> <<g.request>>, responses |-> <<genResp>>]

\* a Query that keeps the embedding of the question in the embedding map
QueryCaching(question, embResp, genResp) ==
    /\ call' = [op |-> "Query", question |-> question]
    /\ ret' = QueryResult(question, embResp, genResp)
    /\ embeddings' = IF ret'.err THEN embeddings
                     ELSE Store(embeddings, question, ret'.embeds[1].vec)
    /\ UNCHANGED <<openaiClient, claudeClient, documents, chunkSize,
                   maxTokens, useOpenAI>>

Query(question, embResp, genResp) ==
    /\ call' = [op |-> "Query", question |-> question]
    /\ ret' = QueryResult(question, embResp, genResp)
    /\ UNCHANGED rag

SetChunkSize(size) ==
    /\ chunkSize' = size
    /\ call' = [op |-> "SetChunkSize", size |-> size]
    /\ ret' = [op |-> "SetChunkSize"]
    /\ UNCHANGED <<openaiClient, claudeClient, documents, embeddings,
                   maxTokens, useOpenAI>>

SetMaxTokens(tokens) ==
    /\ maxTokens' = tokens
    /\ call' = [op |-> "SetMaxTokens", tokens |-> tokens]
    /\ ret' = [op |-> "SetMaxTokens"]
    /\ UNCHANGED <<openaiClient, claudeClient, documents, embeddings,
                   chunkSize, useOpenAI>>

\* An answer of a backend that is never asked for plays no part in the call:
\* such answers are fixed to the failure instead of enumerated.
EmbedFailure == [err |-> TRUE, vec |-> Nil]
GenFailure == [err |-> TRUE, text |-> ""]

AnswersAsked(flag, n) ==
    {resps \in [1..n -> EmbedResponses] :
        /\ ~flag => \A i \in 1..n : resps[i] = EmbedFailure
        /\ \A i \in 1..n : resps[i].err => \A j \in i..n : resps[j].err}

DoAddDocument ==
    \E doc \in InputDocs :
        LET n == Len(splitIntoChunks(doc.Content, chunkSize))
        IN  /\ Len(documents) + n <= MaxIndex
            /\ \E resps \in AnswersAsked(useOpenAI, n) : AddDocument(doc, resps)
            /\ UNCHANGED cmd

DoQuery ==
    \E question \in Questions, resps \in AnswersAsked(useOpenAI, 1),
       genResp \in GenResponses :
        /\ resps[1].err => genResp = GenFailure
        /\ Query(question, resps[1], genResp)
        /\ UNCHANGED cmd

DoSetChunkSize == UNCHANGED cmd /\ \E size \in SetSizes : SetChunkSize(size)

DoSetMaxTokens == UNCHANGED cmd /\ \E tokens \in SetTokens : SetMaxTokens(tokens)

Next == DoAddDocument \/ DoQuery \/ DoSetChunkSize \/ DoSetMaxTokens

Spec == Init /\ [][Next]_vars

(***************************************************************************)
(* splitIntoChunks applied to every text and chunk size of the bounds      *)
(***************************************************************************)
Texts == SeqsUpTo(Chars, MaxTextLen)
ChunkSizes == (0 - 1)..MaxChunkSize

InitSplit ==
    /\ openaiClient = "openai"
    /\ claudeClient = "nil"
    /\ documents = <<>>
    /\ embeddings = <<>>
    /\ chunkSize \in ChunkSizes
    /\ maxTokens = DefaultMaxTokens
    /\ useOpenAI = TRUE
    /\ call \in [op : {"splitIntoChunks"}, text : Texts]
    /\ ret = NoCall
    /\ cmd = NoCmd

Split ==
    /\ call.op = "splitIntoChunks"
    /\ ret = NoCall
    /\ ret' = [op |-> "splitIntoChunks",
               chunks |-> splitIntoChunks(call.text, chunkSize)]
    /\ UNCHANGED <<rag, call, cmd>>

NextSplit == Split

SpecSplit == InitSplit /\ [][NextSplit]_vars

(***************************************************************************)
(* cosineSimilarity applied to every pair of vectors of the bounds         *)
(***************************************************************************)
InitCosine ==
    /\ NewRAG
    /\ call \in [op : {"cosineSimilarity"}, a : Vectors, b : Vectors]
    /\ ret = NoCall
    /\ cmd = NoCmd

Cosine ==
    /\ call.op = "cosineSimilarity"
    /\ ret = NoCall
    /\ ret' = [op |-> "cosineSimilarity",
               ab |-> cosineSimilarity(call.a, call.b),
               ba |-> cosineSimilarity(call.b, call.a)]
    /\ UNCHANGED <<rag, call, cmd>>

NextCosine == Cosine

SpecCosine == InitCosine /\ [][NextCosine]_vars

(***************************************************************************)
(* findRelevantDocuments applied to every index and query of the bounds.   *)
(* An index is a chunk list with an embedding stored for each content.     *)
(***************************************************************************)
RankVecs == {<<1, 0>>, <<1, 1>>, <<0, 1>>, <<1, 2>>}
RankQueries == {<<1, 0>>, <<0, 1>>}
RankChunks ==
    {[Content |-> <<l>>, Source |-> "s1", Type |-> "article"] :
        l \in {"a", "b", "c", "d"}}

ContentsOf(docs) == {docs[i].Content : i \in 1..Len(docs)}

InitRank ==
    /\ openaiClient = "openai"
    /\ claudeClient = "nil"
    /\ documents \in SeqsUpTo(RankChunks, MaxRank)
    /\ embeddings \in [ContentsOf(documents) -> RankVecs]
    /\ chunkSize = DefaultChunkSize
    /\ maxTokens = DefaultMaxTokens
    /\ useOpenAI = TRUE
    /\ call \in [op : {"findRelevantDocuments"}, queryEmbedding : RankQueries]
    /\ ret = NoCall
    /\ cmd = NoCmd

Rank ==
    /\ call.op = "findRelevantDocuments"
    /\ ret = NoCall
    /\ LET ranked == findRelevantDocuments(documents, embeddings, call.queryEmbedding)
       IN  ret' = [op |-> "findRelevantDocuments", panic |-> ranked.panic,
                   scores |-> ranked.scores, result |-> ranked.result]
    /\ UNCHANGED <<rag, call, cmd>>

NextRank == Rank

SpecRank == InitRank /\ [][NextRank]_vars

(***************************************************************************)
(* generateAnswer applied, on an instance of either backend, to every      *)
(* context, question and token budget of the bounds                        *)
(***************************************************************************)
GenContexts == {buildContext(docs) : docs \in SeqsUpTo(RankChunks, MaxContext)}
GenQuestions == {<<"q">>, <<"a", " ", "b">>}
GenTokens == {2000, DefaultMaxTokens}

InitGenerate ==
    /\ useOpenAI \in BOOLEAN
    /\ openaiClient = IF useOpenAI THEN "openai" ELSE "nil"
    /\ claudeClient = IF useOpenAI THEN "nil" ELSE "claude"
    /\ documents = <<>>
    /\ embeddings = <<>>
    /\ chunkSize = DefaultChunkSize
    /\ maxTokens \in GenTokens
    /\ call \in [op : {"generateAnswer"}, ctx : GenContexts,
                  question : GenQuestions, resp : GenResponses]
    /\ ret = NoCall
    /\ cmd = NoCmd

Generate ==
    /\ call.op = "generateAnswer"
    /\ ret = NoCall
    /\ LET g == generateAnswer(useOpenAI, maxTokens, call.ctx, call.question,
                               call.resp)
       IN  ret' = [op |-> "generateAnswer", request |-> g.request,
                   answer |-> g.answer, err |-> g.err]
    /\ UNCHANGED <<rag, call, cmd>>

NextGenerate == Generate

SpecGenerate == InitGenerate /\ [][NextGenerate]_vars

(***************************************************************************)
(* The query command (queryCmd.RunE) with a non-empty OpenAI key: the      *)
(* instance is built from the keys, configured, loaded from the configured *)
(* sources or from the example documents, and asked the question.          *)
(***************************************************************************)
ClaudePlaceholder == "your-claude-api-key-here"

SourceNames == <<"n1", "n2", "n3", "n4">>

\* the first n entries of rag.sources
SourceList(n) ==
    [k \in 1..n |-> [URL |-> SourceNames[k], Type |-> "article",
                     Name |-> SourceNames[k]]]

Configs ==
    [claudeKey : {"", ClaudePlaceholder, "ck"},
     chunk_size : {0, 1},
     max_tokens : {0, 2000},
     sources : {SourceList(n) : n \in 0..MaxSources}]

\* what http.Get and ioutil.ReadAll give for a source: a failure or a body
FetchErrors == {"fetch failed", "read failed"}
Bodies == {<<"a", " ", "b">>, <<"b">>, <<" ">>}

\* the documents of loadExampleDocuments, their texts cut to two words
ExampleDocs ==
    << [Content |-> <<"a", " ", "b">>, Source |-> "Kubernetes Best Practices",
        Type |-> "documentation"],
       [Content |-> <<"b", " ", "a">>, Source |-> "AWS Cost Optimization Guide",
        Type |-> "article"],
       [Content |-> <<"a", " ", "a">>, Source |-> "Container Security Guidelines",
        Type |-> "documentation"] >>

useClaudeIfAvailable(cfg) == cfg.claudeKey # "" /\ cfg.claudeKey # ClaudePlaceholder

\* a command that builds the OpenAI instance whatever the Claude key is
InitCmdOpenAIOnly ==
    /\ cmd \in [pc : {"configure"}, cfg : Configs, i : {1}, log : {<<>>},
                out : {[kind |-> "running"]}]
    /\ NewRAG
    /\ call = NoCall
    /\ ret = NoCall

InitCmd ==
    /\ cmd \in [pc : {"configure"}, cfg : Configs, i : {1}, log : {<<>>},
                out : {[kind |-> "running"]}]
    /\ IF useClaudeIfAvailable(cmd.cfg) THEN NewRAGWithClaude ELSE NewRAG
    /\ call = NoCall
    /\ ret = NoCall

\* RunE, "Configure RAG settings from config"
CmdConfigure ==
    /\ cmd.pc = "configure"
    /\ chunkSize' = IF cmd.cfg.chunk_size > 0 THEN cmd.cfg.chunk_size ELSE chunkSize
    /\ maxTokens' = IF cmd.cfg.max_tokens > 0 THEN cmd.cfg.max_tokens ELSE maxTokens
    /\ cmd' = [cmd EXCEPT !.pc = IF Len(cmd.cfg.sources) = 0
                                 THEN "examples" ELSE "load"]
    /\ UNCHANGED <<openaiClient, claudeClient, documents, embeddings,
                   useOpenAI, call, ret>>

\* a loader that gives up at the first source it cannot fetch
CmdLoadSourceAbort(outcome, resps) ==
    LET source == cmd.cfg.sources[cmd.i]
    IN  /\ cmd.pc = "load"
        /\ IF outcome \in FetchErrors
           THEN /\ cmd' = [cmd EXCEPT !.pc = "done",
                                      !.out = [kind |-> "error", stage |-> "load"]]
                /\ UNCHANGED <<rag, call, ret>>
           ELSE /\ AddDocument([Content |-> outcome, Source |-> source.Name,
                                Type |-> source.Type], resps)
                /\ cmd' = [cmd EXCEPT
                              !.pc = IF cmd.i = Len(cmd.cfg.sources)
                                     THEN "query" ELSE "load",
                              !.i = cmd.i + 1,
                              !.log = Append(cmd.log,
                                             [name |-> source.Name, fetched |-> TRUE,
                                              offered |-> TRUE, added |-> ~ret'.err,
                                              content |-> outcome])]

\* one iteration of the loop of loadKnowledgeBase over the sources
CmdLoadSource(outcome, resps) ==
    LET source == cmd.cfg.sources[cmd.i]
        next == IF cmd.i = Len(cmd.cfg.sources) THEN "query" ELSE "load"
    IN  /\ cmd.pc = "load"
        /\ IF outcome \in FetchErrors
           THEN /\ cmd' = [cmd EXCEPT
                              !.pc = next,
                              !.i = cmd.i + 1,
                              !.log = Append(cmd.log,
                                             [name |-> source.Name, fetched |-> FALSE,
                                              offered |-> FALSE, added |-> FALSE,
                                              content |-> <<>>])]
                /\ UNCHANGED <<rag, call, ret>>
           ELSE /\ AddDocument([Content |-> outcome, Source |-> source.Name,
                                Type |-> source.Type], resps)
                /\ cmd' = [cmd EXCEPT
                              !.pc = next,
                              !.i = cmd.i + 1,
                              !.log = Append(cmd.log,
                                             [name |-> source.Name, fetched |-> TRUE,
                                              offered |-> TRUE, added |-> ~ret'.err,
                                              content |-> outcome])]

\* an example loader that skips a document AddDocument rejects
CmdLoadExampleSkip(resps) ==
    /\ cmd.pc = "examples"
    /\ AddDocument(ExampleDocs[cmd.i], resps)
    /\ cmd' = [cmd EXCEPT !.pc = IF cmd.i = Len(ExampleDocs)
                                 THEN "query" ELSE "examples",
                          !.i = cmd.i + 1]

\* one iteration of the loop of loadExampleDocuments
CmdLoadExample(resps) ==
    /\ cmd.pc = "examples"
    /\ AddDocument(ExampleDocs[cmd.i], resps)
    /\ cmd' = IF ret'.err
              THEN [cmd EXCEPT !.pc = "done",
                               !.out = [kind |-> "error", stage |-> "load"]]
              ELSE [cmd EXCEPT !.pc = IF cmd.i = Len(ExampleDocs)
                                      THEN "query" ELSE "examples",
                               !.i = cmd.i + 1]

\* RunE, "Query the RAG system" and "Display results"
CmdQuery(question, embResp, genResp) ==
    /\ cmd.pc = "query"
    /\ Query(question, embResp, genResp)
    /\ cmd' = [cmd EXCEPT !.pc = "done",
                          !.out = IF ret'.err
                                  THEN [kind |-> "error", stage |-> "query"]
                                  ELSE [kind |-> "answer", text |-> ret'.answer]]

DoCmdLoadSource ==
    /\ cmd.pc = "load"
    /\ \E outcome \in FetchErrors \cup Bodies :
          LET n == IF outcome \in FetchErrors THEN 0
                   ELSE Len(splitIntoChunks(outcome, chunkSize))
          IN  \E resps \in AnswersAsked(useOpenAI, n) : CmdLoadSource(outcome, resps)

DoCmdLoadExample ==
    /\ cmd.pc = "examples"
    /\ LET n == Len(splitIntoChunks(ExampleDocs[cmd.i].Content, chunkSize))
       IN  \E resps \in AnswersAsked(useOpenAI, n) : CmdLoadExample(resps)

DoCmdQuery ==
    \E question \in Questions, resps \in AnswersAsked(useOpenAI, 1),
       genResp \in GenResponses :
        /\ resps[1].err => genResp = GenFailure
        /\ CmdQuery(question, resps[1], genResp)

NextCmd == CmdConfigure \/ DoCmdLoadSource \/ DoCmdLoadExample \/ DoCmdQuery

SpecCmd == InitCmd /\ [][NextCmd]_vars

(***************************************************************************)
(* AddDocument and Query called from two goroutines on one instance.  RAG  *)
(* has no lock: a step is one statement of a call, the steps of the two    *)
(* calls interleave, and a read that races with the write of the other     *)
(* goroutine may also take the outcomes Go gives a data race: the slice    *)
(* header of r.documents read torn while it is assigned, the run-time's    *)
(* fatal "concurrent map read and map write".  The arguments of a call are *)
(* kept in its activation record, and ret is what the call that returned   *)
(* last gave.                                                              *)
(***************************************************************************)
ConcSizes == {2, DefaultChunkSize}

Idle == [pc |-> "idle"]

\* what a Query leaves when it ends in the given way
QueryEnd(outcome, missing, relevant) ==
    [op |-> "Query", outcome |-> outcome, missing |-> missing,
     relevant |-> relevant]

InitConcurrent ==
    /\ useOpenAI \in BOOLEAN
    /\ openaiClient = IF useOpenAI THEN "openai" ELSE "nil"
    /\ claudeClient = IF useOpenAI THEN "nil" ELSE "claude"
    /\ documents = <<>>
    /\ embeddings = <<>>
    /\ chunkSize \in ConcSizes
    /\ maxTokens = DefaultMaxTokens
    /\ call = NoCall
    /\ ret = NoCall
    /\ cmd = [pc |-> "concurrent", add |-> Idle, query |-> Idle]

\* AddDocument is called: chunks := r.splitIntoChunks(doc.Content)
AddDocumentCall ==
    /\ cmd.pc = "concurrent"
    /\ cmd.add.pc = "idle"
    /\ \E doc \in InputDocs :
          LET chunks == splitIntoChunks(doc.Content, chunkSize)
          IN  /\ Len(documents) + Len(chunks) <= MaxIndex
              /\ IF chunks = <<>>
                 THEN /\ ret' = [op |-> "AddDocument", err |-> FALSE]
                      /\ UNCHANGED cmd
                 ELSE /\ cmd' = [cmd EXCEPT !.add =
                                    [pc |-> "embed", doc |-> doc,
                                     chunks |-> chunks, i |-> 1,
                                     embedding |-> Nil]]
                      /\ UNCHANGED ret
    /\ UNCHANGED <<rag, call>>

\* embedding, err := r.getEmbedding(chunk)
AddDocumentEmbed ==
    /\ cmd.pc = "concurrent"
    /\ cmd.add.pc = "embed"
    /\ \E resps \in AnswersAsked(useOpenAI, 1) :
          LET e == getEmbedding(useOpenAI, cmd.add.chunks[cmd.add.i], resps[1])
          IN  IF e.err
              THEN /\ cmd' = [cmd EXCEPT !.add = Idle]
                   /\ ret' = [op |-> "AddDocument", err |-> TRUE]
              ELSE /\ cmd' = [cmd EXCEPT !.add.pc = "append",
                                         !.add.embedding = e.vec]
                   /\ UNCHANGED ret
    /\ UNCHANGED <<rag, call>>

\* r.documents = append(r.documents, Document{...})
AddDocumentAppend ==
    /\ cmd.pc = "concurrent"
    /\ cmd.add.pc = "append"
    /\ documents' = Append(documents,
                           [Content |-> cmd.add.chunks[cmd.add.i],
                            Source |-> cmd.add.doc.Source,
                            Type |-> cmd.add.doc.Type])
    /\ cmd' = [cmd EXCEPT !.add.pc = "store"]
    /\ UNCHANGED <<openaiClient, claudeClient, embeddings, chunkSize,
                   maxTokens, useOpenAI, call, ret>>

\* r.embeddings[chunk] = embedding, and the next turn of the loop
AddDocumentStore ==
    /\ cmd.pc = "concurrent"
    /\ cmd.add.pc = "store"
    /\ embeddings' = Store(embeddings, cmd.add.chunks[cmd.add.i],
                           cmd.add.embedding)
    /\ IF cmd.add.i = Len(cmd.add.chunks)
       THEN /\ cmd' = [cmd EXCEPT !.add = Idle]
            /\ ret' = [op |-> "AddDocument", err |-> FALSE]
       ELSE /\ cmd' = [cmd EXCEPT !.add.pc = "embed",
                                  !.add.i = cmd.add.i + 1,
                                  !.add.embedding = Nil]
            /\ UNCHANGED ret
    /\ UNCHANGED <<openaiClient, claudeClient, documents, chunkSize,
                   maxTokens, useOpenAI, call>>

\* Query is called
QueryCall ==
    /\ cmd.pc = "concurrent"
    /\ cmd.query.pc = "idle"
    /\ \E question \in Questions :
          cmd' = [cmd EXCEPT !.query =
                     [pc |-> "embed", question |-> question,
                      queryEmbedding |-> Nil, docs |-> <<>>, j |-> 1]]
    /\ UNCHANGED <<rag, call, ret>>

\* queryEmbedding, err := r.getEmbedding(question)
QueryEmbed ==
    /\ cmd.pc = "concurrent"
    /\ cmd.query.pc = "embed"
    /\ \E resps \in AnswersAsked(useOpenAI, 1) :
          LET e == getEmbedding(useOpenAI, cmd.query.question, resps[1])
          IN  IF e.err
              THEN /\ cmd' = [cmd EXCEPT !.query = Idle]
                   /\ ret' = QueryEnd("error", FALSE, <<>>)
              ELSE /\ cmd' = [cmd EXCEPT !.query.pc = "range",
                                         !.query.queryEmbedding = e.vec]
                   /\ UNCHANGED ret
    /\ UNCHANGED <<rag, call>>

\* "for _, doc := range r.documents": the slice is read once, when the loop
\* starts; while the other goroutine is at its append the read may be torn
QueryRange ==
    /\ cmd.pc = "concurrent"
    /\ cmd.query.pc = "range"
    /\ \/ /\ cmd' = [cmd EXCEPT !.query.pc = IF documents = <<>>
                                              THEN "generate" ELSE "score",
                                  !.query.docs = documents]
          /\ UNCHANGED ret
       \/ /\ cmd.add.pc = "append"
          /\ cmd' = [cmd EXCEPT !.pc = "undefined"]
          /\ ret' = QueryEnd("undefined", FALSE, <<>>)
    /\ UNCHANGED <<rag, call>>

\* one turn of the loop: cosineSimilarity(queryEmbedding,
\* r.embeddings[doc.Content]); a panic ends the program, and so does the
\* fatal error of a map read that meets the write of the other goroutine
QueryScore ==
    /\ cmd.pc = "concurrent"
    /\ cmd.query.pc = "score"
    /\ LET content == cmd.query.docs[cmd.query.j].Content
           score == cosineSimilarity(cmd.query.queryEmbedding,
                                     Lookup(embeddings, content))
       IN  \/ /\ score # Panic
              /\ cmd' = [cmd EXCEPT !.query.pc =
                                       IF cmd.query.j = Len(cmd.query.docs)
                                       THEN "generate" ELSE "score",
                                    !.query.j = cmd.query.j + 1]
              /\ UNCHANGED ret
           \/ /\ score = Panic
              /\ cmd' = [cmd EXCEPT !.pc = "crashed"]
              /\ ret' = QueryEnd("panic", content \notin DOMAIN embeddings, <<>>)
           \/ /\ cmd.add.pc = "store"
              /\ cmd' = [cmd EXCEPT !.pc = "crashed"]
              /\ ret' = QueryEnd("fatal", FALSE, <<>>)
    /\ UNCHANGED <<rag, call>>

\* the first 3 of the scores, buildContext, generateAnswer and the return
QueryGenerate ==
    /\ cmd.pc = "concurrent"
    /\ cmd.query.pc = "generate"
    /\ \E genResp \in GenResponses :
          LET docs == cmd.query.docs
              relevant == SubSeq(docs, 1, Min(Len(docs), TopK))
              g == generateAnswer(useOpenAI, maxTokens, buildContext(relevant),
                                  cmd.query.question, genResp)
          IN  ret' = QueryEnd(IF g.err THEN "error" ELSE "answer", FALSE,
                              relevant)
    /\ cmd' = [cmd EXCEPT !.query = Idle]
    /\ UNCHANGED <<rag, call>>

NextConcurrent ==
    \/ AddDocumentCall
    \/ AddDocumentEmbed
    \/ AddDocumentAppend
    \/ AddDocumentStore
    \/ QueryCall
    \/ QueryEmbed
    \/ QueryRange
    \/ QueryScore
    \/ QueryGenerate

SpecConcurrent == InitConcurrent /\ [][NextConcurrent]_vars

(***************************************************************************)
(* The three types that hold the two backend clients, RAG, Scanner and     *)
(* image.Analyzer, and the analyze command (analyzeCmd.RunE with a         *)
(* non-empty OpenAI key).  Scanner and Analyzer have the fields            *)
(* openaiClient, claudeClient, maxTokens and useOpenAI of RAG and no       *)
(* index.  An operation is applied to an instance given as a record, the   *)
(* command having a second one in hand; its result names the receiver, the *)
(* file reads, the clients it called through and the requests.             *)
(***************************************************************************)
Self ==
    [openaiClient |-> openaiClient, claudeClient |-> claudeClient,
     maxTokens |-> maxTokens, useOpenAI |-> useOpenAI]

NewAnalyzer ==
    [openaiClient |-> "openai", claudeClient |-> "nil",
     maxTokens |-> DefaultMaxTokens, useOpenAI |-> TRUE]

NewAnalyzerWithClaude ==
    [openaiClient |-> "nil", claudeClient |-> "claude",
     maxTokens |-> DefaultMaxTokens, useOpenAI |-> FALSE]

NewScanner ==
    [openaiClient |-> "openai", claudeClient |-> "nil",
     maxTokens |-> DefaultMaxTokens, useOpenAI |-> TRUE]

NewScannerWithClaude ==
    [openaiClient |-> "nil", claudeClient |-> "claude",
     maxTokens |-> DefaultMaxTokens, useOpenAI |-> FALSE]

\* the variables hold the instance a, of a type without an index
Built(a) ==
    /\ openaiClient = a.openaiClient
    /\ claudeClient = a.claudeClient
    /\ maxTokens = a.maxTokens
    /\ useOpenAI = a.useOpenAI
    /\ documents = <<>>
    /\ embeddings = <<>>
    /\ chunkSize = 0

\* what os.ReadFile gives
ReadOutcomes == {[err |-> TRUE, content |-> <<>>],
                 [err |-> FALSE, content |-> <<"a">>]}

\* the outcome of an operation named op on the instance a
Outcome(op, a, reads, clients, requests, analysis, err) ==
    [op |-> op, receiver |-> a, reads |-> reads, clients |-> clients,
     panic |-> \E k \in 1..Len(clients) : clients[k] = "nil",
     requests |-> requests, analysis |-> analysis, err |-> err]

\* a completion that always goes to the OpenAI client
CompleteOpenAI(op, a, reads, resp) ==
    Outcome(op, a, reads, <<a.openaiClient>>,
            <<[backend |-> "openai", MaxTokens |-> a.maxTokens]>>,
            IF resp.err THEN "" ELSE resp.text, resp.err)

\* "if x.useOpenAI { x.openaiClient.CreateChatCompletion(...) } else
\* { x.claudeClient.CreateMessages(...) }" and the return of the answer; a
\* call through a nil client is a nil dereference
Complete(op, a, reads, resp) ==
    LET client == IF a.useOpenAI THEN a.openaiClient ELSE a.claudeClient
    IN  Outcome(op, a, reads, <<client>>,
                <<[backend |-> IF a.useOpenAI THEN "openai" ELSE "claude",
                   MaxTokens |-> a.maxTokens]>>,
                IF resp.err THEN "" ELSE resp.text, resp.err)

\* Scanner.analyzeClusterState, ScanVirtualMachine, GenerateRecommendations
ScannerOps == {"analyzeClusterState", "ScanVirtualMachine",
               "Scanner.GenerateRecommendations"}

\* an AnalyzeImage without the test of useOpenAI
AnalyzeImageUnguarded(a, read, resp) ==
    IF read.err
    THEN Outcome("AnalyzeImage", a, 1, <<>>, <<>>, "", TRUE)
    ELSE Outcome("AnalyzeImage", a, 1, <<a.openaiClient>>,
                 <<[backend |-> "openai", MaxTokens |-> a.maxTokens]>>,
                 IF resp.err THEN "" ELSE resp.text, resp.err)

\* Analyzer.AnalyzeImage
AnalyzeImage(a, read, resp) ==
    IF ~a.useOpenAI
    THEN Outcome("AnalyzeImage", a, 0, <<>>, <<>>, "", TRUE)
    ELSE IF read.err
    THEN Outcome("AnalyzeImage", a, 1, <<>>, <<>>, "", TRUE)
    ELSE Outcome("AnalyzeImage", a, 1, <<a.openaiClient>>,
                 <<[backend |-> "openai", MaxTokens |-> a.maxTokens]>>,
                 IF resp.err THEN "" ELSE resp.text, resp.err)

\* Analyzer.AnalyzeDocument
AnalyzeDocument(a, read, resp) ==
    IF read.err
    THEN Outcome("AnalyzeDocument", a, 1, <<>>, <<>>, "", TRUE)
    ELSE Complete("AnalyzeDocument", a, 1, resp)

ImageExts == {".jpg", ".jpeg", ".png"}
DocExts == {".txt", ".md", ".yaml", ".yml", ".json", ".tf", ".hcl"}
Exts == {".jpg", ".png", ".md", ".PNG"}

InitScanner ==
    /\ Built(NewScanner) \/ Built(NewScannerWithClaude)
    /\ call = NoCall
    /\ ret = NoCall
    /\ cmd = [pc |-> "Scanner"]

InitAnalyzer ==
    /\ Built(NewAnalyzer) \/ Built(NewAnalyzerWithClaude)
    /\ call = NoCall
    /\ ret = NoCall
    /\ cmd = [pc |-> "Analyzer"]

InitAnalyze ==
    /\ cmd \in [pc : {"analyze"},
                 cfg : [claudeKey : {"", ClaudePlaceholder, "ck"}],
                 ext : Exts, out : {[kind |-> "running"]}]
    /\ IF useClaudeIfAvailable(cmd.cfg)
       THEN Built(NewAnalyzerWithClaude) ELSE Built(NewAnalyzer)
    /\ call = NoCall
    /\ ret = NoCall

InitBackends == Init \/ InitScanner \/ InitAnalyzer \/ InitAnalyze

\* the operations of a RAG instance
RAGStep == cmd = NoCmd /\ Next

ScannerStep ==
    /\ cmd.pc = "Scanner"
    /\ \E op \in ScannerOps, resp \in GenResponses :
          /\ call' = [op |-> op]
          /\ ret' = Complete(op, Self, 0, resp)
    /\ UNCHANGED <<rag, cmd>>

DoAnalyzeImage ==
    /\ cmd.pc = "Analyzer"
    /\ \E read \in ReadOutcomes, resp \in GenResponses :
          /\ call' = [op |-> "AnalyzeImage"]
          /\ ret' = AnalyzeImage(Self, read, resp)
    /\ UNCHANGED <<rag, cmd>>

DoAnalyzeDocument ==
    /\ cmd.pc = "Analyzer"
    /\ \E read \in ReadOutcomes, resp \in GenResponses :
          /\ call' = [op |-> "AnalyzeDocument"]
          /\ ret' = AnalyzeDocument(Self, read, resp)
    /\ UNCHANGED <<rag, cmd>>

DoGenerateRecommendations ==
    /\ cmd.pc = "Analyzer"
    /\ \E resp \in GenResponses :
          /\ call' = [op |-> "Analyzer.GenerateRecommendations"]
          /\ ret' = Complete("Analyzer.GenerateRecommendations", Self, 0, resp)
    /\ UNCHANGED <<rag, cmd>>

\* RunE from "Analyze based on file type" on
CmdAnalyze(read, resp) ==
    /\ cmd.pc = "analyze"
    /\ IF cmd.ext \in ImageExts \cup DocExts
       THEN /\ ret' = IF cmd.ext \in ImageExts
                      THEN IF useClaudeIfAvailable(cmd.cfg)
                           THEN AnalyzeImage(NewAnalyzer, read, resp)
                           ELSE AnalyzeImage(Self, read, resp)
                      ELSE AnalyzeDocument(Self, read, resp)
            /\ call' = [op |-> ret'.op]
            /\ cmd' = [cmd EXCEPT
                          !.pc = "done",
                          !.out = IF ret'.err THEN [kind |-> "error"]
                                  ELSE [kind |-> "analysis",
                                        text |-> ret'.analysis]]
       ELSE /\ cmd' = [cmd EXCEPT !.pc = "done", !.out = [kind |-> "error"]]
            /\ UNCHANGED <<call, ret>>
    /\ UNCHANGED rag

DoCmdAnalyze ==
    \E read \in ReadOutcomes, resp \in GenResponses : CmdAnalyze(read, resp)

NextBackends ==
    \/ RAGStep
    \/ ScannerStep
    \/ DoAnalyzeImage
    \/ DoAnalyzeDocument
    \/ DoGenerateRecommendations
    \/ DoCmdAnalyze

SpecBackends == InitBackends /\ [][NextBackends]_vars

(***************************************************************************)
(* Claims on splitIntoChunks (SpecSplit)                                   *)
(***************************************************************************)
WordCount(text) == Len(Fields(text))

CeilDiv(w, n) == (w + n - 1) \div n

RECURSIVE WordsOf(_)
\* the words of the chunks, read in chunk order
WordsOf(chunks) ==
    IF chunks = <<>> THEN <<>>
    ELSE Fields(chunks[1]) \o WordsOf(Tail(chunks))

SplitDone == ret.op = "splitIntoChunks"

\* C5: with chunkSize N > 0 a text of w words is split into ceil(w / N)
\* chunks, each of 1..N words, and all but the last of exactly N words.
C5_ChunkCount ==
    (SplitDone /\ chunkSize > 0) =>
        LET w == WordCount(call.text)
            chunks == ret.chunks
        IN  /\ Len(chunks) = CeilDiv(w, chunkSize)
            /\ \A i \in 1..Len(chunks) :
                  /\ WordCount(chunks[i]) >= 1
                  /\ WordCount(chunks[i]) <= chunkSize
                  /\ i < Len(chunks) => WordCount(chunks[i]) = chunkSize

\* a text of 3 words split with chunkSize 2: one full chunk, one short one
C5_Witness ==
    /\ SplitDone
    /\ chunkSize = 2
    /\ WordCount(call.text) = 3
    /\ Len(ret.chunks) = 2

\* C6: with chunkSize N > 0 the words of the chunks, in chunk order, are the
\* words of the text, and the chunks joined by single spaces are the text
\* with every run of white space replaced by one space and the ends trimmed.
C6_WordsPreserved ==
    (SplitDone /\ chunkSize > 0) =>
        /\ WordsOf(ret.chunks) = Fields(call.text)
        /\ Join(ret.chunks, <<" ">>) = Join(Fields(call.text), <<" ">>)

\* a text that is not in normal form (a line break between its words) and
\* leaves a word over after the last full chunk
C6_Witness ==
    /\ SplitDone
    /\ chunkSize = 1
    /\ call.text = <<"a", "\n", " ", "b">>
    /\ ret.chunks = << <<"a">>, <<"b">> >>

(***************************************************************************)
(* Claims on cosineSimilarity (SpecCosine)                                 *)
(***************************************************************************)
CosineDone == ret.op = "cosineSimilarity"

SquaredNorm(v) == SumTo(v, v, Len(v))

Sign(x) == IF x > 0 THEN 1 ELSE IF x < 0 THEN 0 - 1 ELSE 0

\* the score n / d equals dot / sqrt(na * nb)
IsCosineOf(score, dot, na, nb) ==
    /\ score.kind = "num"
    /\ Sign(score.n) = Sign(dot)
    /\ score.n * score.n * na * nb = dot * dot * score.d * score.d

\* C7: for vectors of one length and non-zero norms the score is
\* dot(a,b) / (|a| * |b|) with the Euclidean norms, hence 1 for a = b and
\* within [-1, 1] for every pair.
C7_CosineFormula ==
    (/\ CosineDone
     /\ Len(call.a) = Len(call.b)
     /\ SquaredNorm(call.a) # 0
     /\ SquaredNorm(call.b) # 0) =>
        /\ IsCosineOf(ret.ab, SumTo(call.a, call.b, Len(call.a)),
                      SquaredNorm(call.a), SquaredNorm(call.b))
        /\ call.a = call.b => ret.ab = Num(1, 1)
        /\ Abs(ret.ab.n) <= ret.ab.d

\* C8: the score is exactly 0 when either vector is all zero.
C8_ZeroNormScoresZero ==
    (/\ CosineDone
     /\ Len(call.a) = Len(call.b)
     /\ Len(call.a) > 0
     /\ (SquaredNorm(call.a) = 0 \/ SquaredNorm(call.b) = 0)) =>
        ret.ab = Num(0, 1)

\* C9: cosineSimilarity(a, b) and cosineSimilarity(b, a) have one outcome.
C9_Symmetric ==
    CosineDone => ret.ab = ret.ba

(***************************************************************************)
(* Claims on ranking (SpecRank)                                            *)
(***************************************************************************)
RankDone == ret.op = "findRelevantDocuments" /\ ~ret.panic

\* the score of a chunk of the index against the query of the call
ScoreOf(doc) == cosineSimilarity(call.queryEmbedding, embeddings[doc.Content])

Less(s, t) == s.n * t.d < t.n * s.d

Count(seq, x) == Cardinality({i \in 1..Len(seq) : seq[i] = x})

\* x = y, or some occurrence of x comes before some occurrence of y in seq
Precedes(seq, x, y) ==
    \/ x = y
    \/ \E i, j \in 1..Len(seq) : i < j /\ seq[i] = x /\ seq[j] = y

\* C2: the chunks ranking returns are in descending order of score, chunks
\* of equal score in ingestion order; of two ingested chunks the second comes
\* first when it scores higher.
C2_RankedDescending ==
    RankDone =>
        /\ \A i, j \in 1..Len(ret.result) :
              i < j =>
                  /\ ~Less(ScoreOf(ret.result[i]), ScoreOf(ret.result[j]))
                  /\ ScoreOf(ret.result[i]) = ScoreOf(ret.result[j])
                        => Precedes(documents, ret.result[i], ret.result[j])
        /\ (Len(documents) = 2 /\ Less(ScoreOf(documents[1]), ScoreOf(documents[2])))
              => ret.result[1] = documents[2]

DistinctScores ==
    \A i, j \in 1..Len(documents) :
        i # j => ScoreOf(documents[i]) # ScoreOf(documents[j])

\* C3: when the chunks of the index have distinct scores, every chunk that
\* ranking returns scores at least as high as every chunk it leaves out.
C3_TopScoring ==
    (RankDone /\ DistinctScores) =>
        \A i \in 1..Len(ret.result), j \in 1..Len(documents) :
            Count(ret.result, documents[j]) = 0
                => ~Less(ScoreOf(ret.result[i]), ScoreOf(documents[j]))

\* C4: ranking an index of n chunks returns min(3, n) chunks, each a chunk
\* of the index, and no chunk more often than the index holds it.
C4_AtMostThree ==
    RankDone =>
        /\ Len(ret.result) = Min(3, Len(documents))
        /\ \A i \in 1..Len(ret.result) :
              /\ Count(documents, ret.result[i]) >= 1
              /\ Count(ret.result, ret.result[i]) <= Count(documents, ret.result[i])

\* an index of 4 chunks, one of them ingested twice, is ranked: 3 are returned
C4_Witness ==
    /\ RankDone
    /\ Len(documents) = 4
    /\ documents[1] = documents[3]
    /\ Len(ret.result) = 3

C1_AtomicIngestion ==
    [][(ret'.op = "AddDocument" /\ ret'.err)
          => (documents' = documents /\ embeddings' = embeddings)]_vars

\* C10: in Claude mode every getEmbedding call returns an error and the nil
\* vector without a request to a backend, so that AddDocument of a text with
\* words and Query fail before any backend is asked.
C10_ClaudeEmbeddingFails ==
    (~useOpenAI /\ ret.op \in {"AddDocument", "Query"}) =>
        /\ \A i \in 1..Len(ret.embeds) :
              /\ ret.embeds[i].err
              /\ ret.embeds[i].vec = Nil
              /\ ret.embeds[i].requests = 0
        /\ Len(ret.embeds) > 0 => ret.err
        /\ ret.op = "Query" =>
              /\ Len(ret.embeds) = 1
              /\ ret.requests = <<>>
              /\ ret.answer = ""

\* a Query in Claude mode has asked for the embedding of its question
C10_Witness ==
    /\ ~useOpenAI
    /\ claudeClient = "claude"
    /\ ret.op = "Query"
    /\ Len(ret.embeds) = 1
    /\ ret.embeds[1].text = call.question

\* C11: every chunk of the chunk list has an embedding stored under its
\* content, and every key of the embedding map is the content of a chunk.
C11_ChunksHaveEmbeddings ==
    /\ \A i \in 1..Len(documents) : documents[i].Content \in DOMAIN embeddings
    /\ \A key \in DOMAIN embeddings :
          \E i \in 1..Len(documents) : documents[i].Content = key

\* an AddDocument has failed on its 2nd chunk and a Query has followed
C11_Witness ==
    /\ ret.op = "Query"
    /\ ~ret.err
    /\ Len(documents) = 1
    /\ documents[1].Content = <<"b", " ", "a">>
    /\ DOMAIN embeddings = {<<"b", " ", "a">>}

\* C12: a successful AddDocument lengthens the chunk list by the number of
\* chunks of its document, whether their contents are new or not, and leaves
\* one embedding entry per distinct content of the chunk list.
C12_ContentAddressed ==
    [][(ret'.op = "AddDocument" /\ ~ret'.err) =>
          /\ Len(documents') = Len(documents)
                + Len(splitIntoChunks(call'.doc.Content, chunkSize))
          /\ Cardinality(DOMAIN embeddings') = Cardinality(ContentsOf(documents'))]_vars

\* the same document has been ingested twice: two chunks, one embedding
C12_Witness ==
    /\ ret.op = "AddDocument"
    /\ ~ret.err
    /\ Len(documents) = 2
    /\ documents[1] = documents[2]
    /\ Cardinality(DOMAIN embeddings) = 1

\* C13: a Query on an empty index whose question is embedded ranks no chunk,
\* builds the context of the preamble alone and asks the generation backend
\* once; when that answers, Query returns the answer and no error.
C13_EmptyIndexAnswers ==
    (ret.op = "Query" /\ documents = <<>> /\ ~ret.embeds[1].err) =>
        /\ ~ret.panic
        /\ ret.relevant = <<>>
        /\ ret.context = <<Preamble>>
        /\ Len(ret.requests) = 1
        /\ ret.requests[1].user
              = <<Preamble, "\n\nQuestion: ">> \o call.question
        /\ ~ret.responses[1].err =>
              (~ret.err /\ ret.answer = ret.responses[1].text)

\* a Query on the empty index has returned the answer of the backend
C13_Witness ==
    /\ ret.op = "Query"
    /\ documents = <<>>
    /\ ~ret.err
    /\ ret.answer = "answer"
    /\ ret.context = <<Preamble>>

RECURSIVE ContextFrom(_, _)
\* the preamble and then, chunk by chunk from the i-th on, the Source line,
\* the content and the blank line
ContextFrom(docs, i) ==
    IF i > Len(docs) THEN <<>>
    ELSE <<"Source: ", docs[i].Source, "\n">> \o docs[i].Content \o <<"\n\n">>
         \o ContextFrom(docs, i + 1)

\* C14: the context is the preamble followed, for each ranked chunk in ranked
\* order, by "Source: ", the chunk's own source and a line break, then its
\* content and a blank line; it holds one Source line per ranked chunk.
C14_ContextFormat ==
    (ret.op = "Query" /\ ~ret.embeds[1].err /\ ~ret.panic) =>
        /\ ret.context = <<Preamble>> \o ContextFrom(ret.relevant, 1)
        /\ Count(ret.context, "Source: ") = Len(ret.relevant)

\* a context of two chunks of different sources has been built
C14_Witness ==
    /\ ret.op = "Query"
    /\ Len(ret.relevant) = 2
    /\ ret.relevant[1].Source # ret.relevant[2].Source
    /\ Count(ret.context, "Source: ") = 2

\* C15: a Query calls getEmbedding once and the generation backend at most
\* once; when the embedding fails the generation backend is not called, and
\* when either fails Query returns an error and the empty answer.
C15_QueryFailuresFatal ==
    ret.op = "Query" =>
        /\ Len(ret.embeds) = 1
        /\ ret.embeds[1].requests <= 1
        /\ Len(ret.requests) <= 1
        /\ Len(ret.responses) = Len(ret.requests)
        /\ ret.embeds[1].err =>
              (ret.requests = <<>> /\ ret.err /\ ret.answer = "")
        /\ (Len(ret.responses) = 1 /\ ret.responses[1].err) =>
              (ret.err /\ ret.answer = "")

\* the generation backend has failed a Query whose question was embedded
C15_Witness ==
    /\ ret.op = "Query"
    /\ ~ret.embeds[1].err
    /\ Len(ret.responses) = 1
    /\ ret.responses[1].err
    /\ ret.err

\* C16: a Query, failed or not, leaves the chunk list, the embedding map,
\* chunkSize and maxTokens as they were.
C16_QueryStoresNothing ==
    [][ret'.op = "Query" =>
          UNCHANGED <<documents, embeddings, chunkSize, maxTokens>>]_vars

\* a Query has answered from a non-empty index; its question has no entry
\* in the embedding map
C16_Witness ==
    /\ ret.op = "Query"
    /\ ~ret.err
    /\ Len(documents) >= 1
    /\ call.question \notin DOMAIN embeddings

\* C17: chunkSize and maxTokens are positive, the setters accepting no
\* other value.
C17_SettersValidate ==
    chunkSize > 0 /\ maxTokens > 0

(***************************************************************************)
(* Claims on the chunk size and on the configuration                       *)
(***************************************************************************)
\* C18: with chunkSize <= 0 a text of one or more words is split into a
\* single chunk holding all its words (splitIntoChunks has no error to
\* return, so that it cannot reject the call).
C18_NoSplitting ==
    (SplitDone /\ chunkSize <= 0 /\ WordCount(call.text) >= 1) =>
        /\ Len(ret.chunks) = 1
        /\ ret.chunks[1] = Join(Fields(call.text), <<" ">>)

Configuration == <<chunkSize, maxTokens, useOpenAI, openaiClient, claudeClient>>

\* C19: once an AddDocument or a Query has been issued on an instance, no
\* step changes chunkSize, maxTokens or the backend selection (stated for the
\* steps of an instance whose last call was one of the two, or whose index
\* already holds a chunk).
C19_ConfigurationFixed ==
    [][(call.op \in {"AddDocument", "Query"} \/ Len(documents) > 0)
          => UNCHANGED Configuration]_vars

(***************************************************************************)
(* Claims on the query command (SpecCmd)                                   *)
(***************************************************************************)
Loaded == cmd.pc \in {"query", "done"} /\ Len(cmd.cfg.sources) > 0

HasChunk(content, name, type) ==
    \E j \in 1..Len(documents) :
        documents[j] = [Content |-> content, Source |-> name, Type |-> type]

\* C20: when the loop over the configured sources is over, every source has
\* been tried in list order, whatever failed before it, every source that
\* was fetched has been offered to AddDocument, the load has not ended in an
\* error, and the chunks of every source AddDocument accepted are in the
\* index.
C20_SkipAndContinue ==
    Loaded =>
        /\ Len(cmd.log) = Len(cmd.cfg.sources)
        /\ ~(cmd.out.kind = "error" /\ cmd.out.stage = "load")
        /\ \A k \in 1..Len(cmd.log) :
              /\ cmd.log[k].name = cmd.cfg.sources[k].Name
              /\ cmd.log[k].fetched => cmd.log[k].offered
              /\ cmd.log[k].added =>
                    LET chunks == splitIntoChunks(cmd.log[k].content, chunkSize)
                    IN  \A c \in 1..Len(chunks) :
                            HasChunk(chunks[c], cmd.log[k].name,
                                     cmd.cfg.sources[k].Type)

\* the first source could not be fetched, the second has been ingested and
\* the Query has run on its chunks
C20_Witness ==
    /\ cmd.pc = "done"
    /\ Len(cmd.cfg.sources) = 2
    /\ ~cmd.log[1].fetched
    /\ cmd.log[2].added
    /\ Len(documents) >= 1
    /\ cmd.out.kind = "answer"

ClaudeSelected == useClaudeIfAvailable(cmd.cfg)

\* what the claim says of every run with a usable Claude key but for the
\* outcome of the AddDocument calls
ClaudeRunNeverAnswers ==
    /\ ~useOpenAI
    /\ claudeClient = "claude"
    /\ documents = <<>>
    /\ cmd.out.kind # "answer"
    /\ ret.op = "Query" => (ret.err /\ ret.embeds[1].err /\ ret.requests = <<>>)
    /\ cmd.pc = "done" =>
          /\ cmd.out.kind = "error"
          /\ IF Len(cmd.cfg.sources) = 0
             THEN cmd.out.stage = "load" /\ ret.op = "AddDocument"
             ELSE cmd.out.stage = "query" /\ ret.op = "Query"

C29_LoadOutcome ==
    /\ Len(cmd.cfg.sources) > 0 =>
          /\ ~(cmd.out.kind = "error" /\ cmd.out.stage = "load")
          /\ cmd.pc = "done" => ret.op = "Query"
    /\ (Len(cmd.cfg.sources) = 0 /\ ret.op = "AddDocument") =>
          /\ call.doc = ExampleDocs[IF ret.err THEN cmd.i ELSE cmd.i - 1]
          /\ IF ret.err
             THEN /\ cmd.pc = "done"
                  /\ cmd.out = [kind |-> "error", stage |-> "load"]
             ELSE /\ cmd.pc \in {"examples", "query"}
                  /\ cmd.out.kind = "running"
                  /\ Len(documents) >= cmd.i - 1

\* the ingestion of the one source failed on its 2nd chunk, and the Query
\* has answered from the 1st
C29_Witness ==
    /\ cmd.pc = "done"
    /\ Len(cmd.log) = 1
    /\ cmd.log[1].offered
    /\ ~cmd.log[1].added
    /\ Len(splitIntoChunks(cmd.log[1].content, chunkSize)) = 2
    /\ Len(documents) = 1
    /\ ret.op = "Query"
    /\ Len(ret.relevant) = 1
    /\ cmd.out.kind = "answer"

(***************************************************************************)
(* Claims on concurrent calls (SpecConcurrent)                             *)
(***************************************************************************)
\* C21: whatever the interleaving of an AddDocument and a Query, the
\* ranking of the Query finds an embedding in the embedding map for every
\* chunk it reads from the chunk list.
C21_RankingReadsEmbedded ==
    ret.op = "Query" => ~ret.missing

(***************************************************************************)
(* Claims on the backend clients (SpecBackends)                            *)
(***************************************************************************)
AnalyzeRun == cmd.pc \in {"analyze", "done"}

\* C25: an AnalyzeImage on an Analyzer of the Claude backend returns an
\* error without a file read or a backend call; the analyze command with
\* Claude selected and an image file has called AnalyzeImage on a new
\* OpenAI analyzer, and no run of the command has called it on a Claude one.
C25_ClaudeLacksImages ==
    /\ (ret.op = "AnalyzeImage" /\ ~ret.receiver.useOpenAI) =>
          /\ ret.err
          /\ ret.analysis = ""
          /\ ret.reads = 0
          /\ ret.clients = <<>>
          /\ ret.requests = <<>>
    /\ (AnalyzeRun /\ ret.op = "AnalyzeImage") => ret.receiver.useOpenAI
    /\ (cmd.pc = "done" /\ useClaudeIfAvailable(cmd.cfg)
           /\ cmd.ext \in ImageExts) =>
          /\ ret.op = "AnalyzeImage"
          /\ ret.receiver = NewAnalyzer
          /\ Self = NewAnalyzerWithClaude

\* with Claude selected the command has had a diagram analyzed by OpenAI
C25_Witness ==
    /\ cmd.pc = "done"
    /\ cmd.cfg.claudeKey = "ck"
    /\ cmd.ext = ".png"
    /\ ~useOpenAI
    /\ ret.op = "AnalyzeImage"
    /\ ret.requests = <<[backend |-> "openai", MaxTokens |-> DefaultMaxTokens]>>
    /\ cmd.out.kind = "analysis"

\* exactly one client of the instance is set, the one useOpenAI selects
OneClient(a) ==
    IF a.useOpenAI
    THEN a.openaiClient = "openai" /\ a.claudeClient = "nil"
    ELSE a.openaiClient = "nil" /\ a.claudeClient = "claude"

\* the clients the last operation called through: those its result lists,
\* or for a RAG those its embedding and generation requests went to
ClientsUsed ==
    IF ret.op \in {"AddDocument", "Query"}
    THEN {openaiClient : i \in {k \in 1..Len(ret.embeds) :
                                    ret.embeds[k].requests > 0}}
         \cup (IF ret.op = "Query"
               THEN {IF ret.requests[k].backend = "openai"
                     THEN openaiClient ELSE claudeClient :
                         k \in 1..Len(ret.requests)}
               ELSE {})
    ELSE IF ret.op \in ScannerOps \cup {"AnalyzeImage", "AnalyzeDocument",
                                        "Analyzer.GenerateRecommendations"}
    THEN {ret.clients[k] : k \in 1..Len(ret.clients)}
    ELSE {}

\* the instance the last operation was called on
Receiver ==
    IF ret.op \in {"AnalyzeImage", "AnalyzeDocument"} THEN ret.receiver ELSE Self

ClientsMatchFlag ==
    /\ OneClient(Self)
    /\ OneClient(Receiver)
    /\ \A client \in ClientsUsed :
          /\ client # "nil"
          /\ client = IF Receiver.useOpenAI THEN Receiver.openaiClient
                      ELSE Receiver.claudeClient

\* C30: in every state exactly one client of the instance (and of the one
\* the last operation was called on) is set and it is the one useOpenAI
\* selects, the last operation has called through no other client and
\* through no nil one, and no step changes useOpenAI or the clients.
C30_OneClientPerFlag ==
    /\ []ClientsMatchFlag
    /\ [][UNCHANGED <<useOpenAI, openaiClient, claudeClient>>]_vars

\* a Scanner of the Claude backend has made a request through its Claude
\* client
C30_Witness ==
    /\ cmd.pc = "Scanner"
    /\ ret.op = "ScanVirtualMachine"
    /\ ~useOpenAI
    /\ ret.clients = <<"claude">>
    /\ ret.requests[1].backend = "claude"
    /\ ~ret.panic

(***************************************************************************)
(* Claims on generateAnswer (SpecGenerate)                                 *)
(***************************************************************************)
GenerateDone == ret.op = "generateAnswer"

\* the texts of a request in the order the backend is given them: the
\* system message, if there is one, and the user message
Carried(request) == request.system \o request.user

\* C22: the request of generateAnswer, to either backend, has MaxTokens
\* equal to maxTokens and carries the fixed instruction, then the context,
\* then "\n\nQuestion: " and the question, with nothing else but the blank
\* line that joins the instruction to the context when both travel in one
\* message; the answer and the error are those of the backend.
C22_BackendsSubstitutable ==
    GenerateDone =>
        /\ ret.request.MaxTokens = maxTokens
        /\ \E sep \in {<<>>, <<"\n\n">>} :
              Carried(ret.request)
                  = <<SystemInstruction>> \o sep \o call.ctx
                        \o <<"\n\nQuestion: ">> \o call.question
        /\ ret.err = call.resp.err
        /\ ret.answer = call.resp.text

\* the Claude backend has been sent a context of two chunks
C22_Witness ==
    /\ GenerateDone
    /\ ~useOpenAI
    /\ ret.request.backend = "claude"
    /\ Count(call.ctx, "Source: ") = 2
    /\ ret.request.MaxTokens = 2000

(***************************************************************************)
(* Claims on the chunk list and on the requests of AddDocument (Spec)      *)
(***************************************************************************)
IsPrefix(s, t) == Len(s) <= Len(t) /\ SubSeq(t, 1, Len(s)) = s

\* the contents of the chunks a step has added at the end of the chunk list
ContentsAdded(before, after) ==
    [i \in 1..(Len(after) - Len(before)) |-> after[Len(before) + i].Content]

\* C23: every step leaves the chunk list it found as a prefix of the new
\* one, and an AddDocument adds, after it, the leading chunks of its
\* document in chunk order (all of them when it succeeds), so that the
\* chunks of a document are contiguous and the documents in call order.
C23_AppendOnly ==
    [][/\ IsPrefix(documents, documents')
       /\ ret'.op = "AddDocument" =>
             LET chunks == splitIntoChunks(call'.doc.Content, chunkSize)
                 added == ContentsAdded(documents, documents')
             IN  /\ IsPrefix(added, chunks)
                 /\ ~ret'.err => added = chunks]_vars

\* the one chunk of a first document is followed by the two chunks of a
\* second one
C23_Witness ==
    /\ ret.op = "AddDocument"
    /\ ~ret.err
    /\ Len(documents) = 3
    /\ documents[1].Source = "s1"
    /\ documents[2] = [Content |-> <<"b", " ", "a">>, Source |-> "s2",
                       Type |-> "documentation"]
    /\ documents[3] = [Content |-> <<"b">>, Source |-> "s2",
                       Type |-> "documentation"]

\* C24: every chunk an AddDocument(doc) adds to the chunk list has the
\* Source and the Type of doc, and its content is one of the chunks of
\* doc.Content.
C24_ChunksInheritSource ==
    [][ret'.op = "AddDocument" =>
          LET chunks == splitIntoChunks(call'.doc.Content, chunkSize)
          IN  \A i \in (Len(documents) + 1)..Len(documents') :
                  /\ documents'[i].Source = call'.doc.Source
                  /\ documents'[i].Type = call'.doc.Type
                  /\ \E c \in 1..Len(chunks) :
                        chunks[c] = documents'[i].Content]_vars

\* a document of type "documentation" has been added after one of type
\* "article"
C24_Witness ==
    /\ ret.op = "AddDocument"
    /\ call.doc.Type = "documentation"
    /\ Len(documents) >= 2
    /\ documents[1].Type = "article"
    /\ documents[Len(documents)].Type = "documentation"
    /\ documents[Len(documents)].Source = call.doc.Source

\* C26: an AddDocument has asked for the embeddings of the leading chunks of
\* its document, one call per chunk in chunk order; only the last call can
\* have failed, and then the AddDocument has returned an error; when none
\* failed every chunk has been asked for.
C26_StopsAtFirstFailure ==
    ret.op = "AddDocument" =>
        LET chunks == splitIntoChunks(call.doc.Content, chunkSize)
            n == Len(ret.embeds)
        IN  /\ n <= Len(chunks)
            /\ \A i \in 1..n : ret.embeds[i].text = chunks[i]
            /\ \A i \in 1..(n - 1) : ~ret.embeds[i].err
            /\ ret.err <=> (n >= 1 /\ ret.embeds[n].err)
            /\ ~ret.err => n = Len(chunks)

\* the embedding of the 2nd of 3 chunks has failed: 2 calls, 1 chunk stored
C26_Witness ==
    /\ ret.op = "AddDocument"
    /\ useOpenAI
    /\ Len(splitIntoChunks(call.doc.Content, chunkSize)) = 3
    /\ Len(ret.embeds) = 2
    /\ ret.embeds[2].err
    /\ ret.err

====
